---- MODULE Spec2Model ----
(***************************************************************************)
(* Model of utils/cmdline/options.cpp: the option descriptors of the       *)
(* command line library (base_option, bool_option, path_option,            *)
(* string_option).                                                         *)
(*                                                                         *)
(* One descriptor is constructed by one of the six leaf constructors and   *)
(* then queried by a caller any number of times.  C strings (const char* ) *)
(* are modelled as NULL == <<>> or <<s>>; std::string values are TLA+      *)
(* strings; a char is its character code.  A failed PRE/INV/UNREACHABLE    *)
(* is a contract violation and ends the process.                           *)
(***************************************************************************)
EXTENDS Integers, Sequences, FiniteSets, TLC

VARIABLES
    pc,     \* "start", "constructed" or "aborted"
    opt,    \* the fields of the descriptor (kind = "none" before construction)
    args,   \* the arguments the constructor was called with
    ret,    \* the outcome of the last call
    memo    \* history variable: the outcome of one earlier call

vars == <<pc, opt, args, ret, memo>>

-----------------------------------------------------------------------------
(* Values                                                                  *)

\* The character '\0', which marks "no short name".
NUL == 0

\* Longest raw argument text handed to validate and convert.
MaxRawLen == 1

NULL == <<>>

\* Character codes used as short names, and their text under "%c".
ShortNames == {NUL, 111}

CharStr(c) == IF c = 111 THEN "o" ELSE ""

LongNames == {"", "output", "verbose"}

Descriptions == {"", "Where to write"}

ArgNames == {NULL, <<"">>, <<"FILE">>}

DefaultValues == {NULL, <<"">>, <<"/tmp/x">>}

RECURSIVE TextsOfLen(_)
TextsOfLen(n) ==
    IF n = 0 THEN {""}
    ELSE {s \o c : s \in TextsOfLen(n - 1), c \in {"/", "x"}}

RawTexts == UNION {TextsOfLen(n) : n \in 0..MaxRawLen}

NoErr == [option |-> "", value |-> "", reason |-> ""]

NoOpt ==
    [kind |-> "none", _short_name |-> NUL, _long_name |-> "",
     _description |-> "", _arg_name |-> "", _has_default_value |-> FALSE,
     _default_value |-> ""]

NoArgs ==
    [ctor |-> "none", kind |-> "none", short_name |-> NUL, long_name |-> "",
     description |-> "", arg_name |-> NULL, default_value |-> NULL]

\* The outcome of a call on descriptor o: how it ended, what it returned
\* (b, c or s by return type), the error it raised, and o afterwards.
Res(o, outcome, b, c, s, err) ==
    [self |-> o, outcome |-> outcome, b |-> b, c |-> c, s |-> s, err |-> err]

RetV(o) == Res(o, "return", FALSE, NUL, "", NoErr)
RetB(o, b) == Res(o, "return", b, NUL, "", NoErr)
RetC(o, c) == Res(o, "return", FALSE, c, "", NoErr)
RetS(o, s) == Res(o, "return", FALSE, NUL, s, NoErr)
Violation(o) == Res(o, "violation", FALSE, NUL, "", NoErr)
Throw(o, err) == Res(o, "InvalidArgumentValue", FALSE, NUL, "", err)
Propagate(o, exc) == Res(o, exc, FALSE, NUL, "", NoErr)

NoRet ==
    [op |-> "none", raw |-> "", outcome |-> "return", b |-> FALSE,
     c |-> NUL, s |-> "", err |-> NoErr]

-----------------------------------------------------------------------------
(* Collaborators outside options.cpp                                       *)

\* std::runtime_error is a base of every utils::fs error.
IsA(exc, class) ==
    \/ exc = class
    \/ exc = "utils::fs::invalid_path_error"
         /\ class \in {"utils::fs::error", "std::runtime_error"}
    \/ exc = "utils::fs::error" /\ class = "std::runtime_error"

\* utils::fs::path(text): rejects the empty text, keeps any other.
fs_path(text) ==
    IF text = ""
    THEN [ok |-> FALSE, str |-> "", exc |-> "utils::fs::invalid_path_error",
          what |-> "Invalid path '': Cannot be empty"]
    ELSE [ok |-> TRUE, str |-> text, exc |-> "", what |-> ""]

-----------------------------------------------------------------------------
(* base_option                                                             *)

base_option_noinv(short_name_, long_name_, description_, arg_name_, default_value_) ==
    [ok |-> TRUE,
     self |-> [kind |-> "base",
               _short_name |-> short_name_,
               _long_name |-> long_name_,
               _description |-> description_,
               _arg_name |-> IF arg_name_ = NULL THEN "" ELSE arg_name_[1],
               _has_default_value |-> default_value_ # NULL,
               _default_value |-> IF default_value_ = NULL THEN ""
                                  ELSE default_value_[1]]]

\* base_option(short_name_, long_name_, description_, arg_name_,
\* default_value_): ok is FALSE when INV(short_name_ != '\0') fails.
base_option(short_name_, long_name_, description_, arg_name_, default_value_) ==
    [ok |-> short_name_ # NUL,
     self |-> [kind |-> "base",
               _short_name |-> short_name_,
               _long_name |-> long_name_,
               _description |-> description_,
               _arg_name |-> IF arg_name_ = NULL THEN "" ELSE arg_name_[1],
               _has_default_value |-> default_value_ # NULL,
               _default_value |-> IF default_value_ = NULL THEN ""
                                  ELSE default_value_[1]]]

\* base_option(long_name_, description_, arg_name_, default_value_)
base_option_long(long_name_, description_, arg_name_, default_value_) ==
    [ok |-> TRUE,
     self |-> [kind |-> "base",
               _short_name |-> NUL,
               _long_name |-> long_name_,
               _description |-> description_,
               _arg_name |-> IF arg_name_ = NULL THEN "" ELSE arg_name_[1],
               _has_default_value |-> default_value_ # NULL,
               _default_value |-> IF default_value_ = NULL THEN ""
                                  ELSE default_value_[1]]]

has_short_name(o) == RetB(o, o._short_name # NUL)

short_name_nopre(o) == RetC(o, o._short_name)

short_name(o) ==
    IF ~has_short_name(o).b THEN Violation(o)
    ELSE RetC(o, o._short_name)

long_name(o) == RetS(o, o._long_name)

description(o) == RetS(o, o._description)

needs_arg_or_default(o) == RetB(o, o._arg_name # "" \/ o._has_default_value)

needs_arg(o) == RetB(o, o._arg_name # "")

arg_name(o) ==
    IF ~needs_arg(o).b THEN Violation(o)
    ELSE RetS(o, o._arg_name)

has_default_value(o) ==
    IF ~needs_arg(o).b THEN Violation(o)
    ELSE RetB(o, o._has_default_value)

default_value_nocheck(o) == RetS(o, o._default_value)

default_value(o) ==
    LET h == has_default_value(o)
    IN  IF h.outcome # "return" THEN Violation(o)
        ELSE IF ~h.b THEN Violation(o)
        ELSE RetS(o, o._default_value)

format_short_name(o) ==
    IF ~has_short_name(o).b THEN Violation(o)
    ELSE IF needs_arg(o).b
         THEN RetS(o, "-" \o CharStr(short_name(o).c) \o " " \o arg_name(o).s)
         ELSE RetS(o, "-" \o CharStr(short_name(o).c))

format_long_name_space(o) ==
    IF needs_arg(o).b
    THEN RetS(o, "--" \o long_name(o).s \o " " \o arg_name(o).s)
    ELSE RetS(o, "--" \o long_name(o).s)

format_long_name(o) ==
    IF needs_arg(o).b
    THEN RetS(o, "--" \o long_name(o).s \o "=" \o arg_name(o).s)
    ELSE RetS(o, "--" \o long_name(o).s)

\* base_option::validate: UNREACHABLE_MSG.
base_validate(o, str) == Violation(o)

-----------------------------------------------------------------------------
(* Leaf types                                                              *)

AsKind(r, kind) == [r EXCEPT !.self.kind = kind]

bool_option(short_name_, long_name_, description_) ==
    AsKind(base_option(short_name_, long_name_, description_, NULL, NULL),
           "bool")

bool_option_long(long_name_, description_) ==
    AsKind(base_option_long(long_name_, description_, NULL, NULL), "bool")

path_option(short_name_, long_name_, description_, arg_name_, default_value_) ==
    AsKind(base_option(short_name_, long_name_, description_, arg_name_,
                       default_value_), "path")

path_option_long(long_name_, description_, arg_name_, default_value_) ==
    AsKind(base_option_long(long_name_, description_, arg_name_,
                            default_value_), "path")

string_option(short_name_, long_name_, description_, arg_name_, default_value_) ==
    AsKind(base_option(short_name_, long_name_, description_, arg_name_,
                       default_value_), "string")

string_option_long(long_name_, description_, arg_name_, default_value_) ==
    AsKind(base_option_long(long_name_, description_, arg_name_,
                            default_value_), "string")

path_validate_swallow(o, raw_value) == RetV(o)

path_validate_nocatch(o, raw_value) ==
    LET p == fs_path(raw_value)
    IN  IF p.ok THEN RetV(o) ELSE Propagate(o, p.exc)

path_validate(o, raw_value) ==
    LET p == fs_path(raw_value)
    IN  IF p.ok THEN RetV(o)
        ELSE IF IsA(p.exc, "utils::fs::error")
             THEN Throw(o, [option |-> "--" \o long_name(o).s,
                            value |-> raw_value,
                            reason |-> p.what])
             ELSE Propagate(o, p.exc)

path_convert(o, raw_value) ==
    LET p == fs_path(raw_value)
    IN  IF p.ok THEN RetS(o, p.str)
        ELSE IF IsA(p.exc, "std::runtime_error") THEN Violation(o)
             ELSE Propagate(o, p.exc)

string_validate(o, raw_value) == RetV(o)

string_convert_remember(o, raw_value) ==
    RetS([o EXCEPT !._default_value = raw_value], raw_value)

string_convert_default(o, raw_value) ==
    RetS(o, IF raw_value = "" THEN o._default_value ELSE raw_value)

string_convert(o, raw_value) == RetS(o, raw_value)

-----------------------------------------------------------------------------
(* The caller: one construction, then any sequence of calls                *)

Init ==
    /\ pc = "start"
    /\ opt = NoOpt
    /\ args = NoArgs
    /\ ret = NoRet
    /\ memo = NoRet

Outcome(op, raw, r) ==
    [op |-> op, raw |-> raw, outcome |-> r.outcome, b |-> r.b, c |-> r.c,
     s |-> r.s, err |-> r.err]

Construct(a, r) ==
    /\ pc = "start"
    /\ args' = a
    /\ opt' = IF r.ok THEN r.self ELSE NoOpt
    /\ pc' = IF r.ok THEN "constructed" ELSE "aborted"
    /\ ret' = Outcome("construct", "",
                      IF r.ok THEN RetV(NoOpt) ELSE Violation(NoOpt))
    /\ UNCHANGED memo

Call(op, raw, r) ==
    /\ pc = "constructed"
    /\ opt' = r.self
    /\ ret' = Outcome(op, raw, r)
    /\ pc' = IF r.outcome \in {"return", "InvalidArgumentValue"}
             THEN "constructed" ELSE "aborted"
    /\ memo' \in (IF memo.op = "none" THEN {memo, Outcome(op, raw, r)}
                  ELSE {memo})
    /\ UNCHANGED args

NewBool ==
    \E c \in ShortNames, l \in LongNames, d \in Descriptions :
        Construct([ctor |-> "short_long", kind |-> "bool", short_name |-> c,
                   long_name |-> l, description |-> d, arg_name |-> NULL,
                   default_value |-> NULL],
                  bool_option(c, l, d))

NewBoolLong ==
    \E l \in LongNames, d \in Descriptions :
        Construct([ctor |-> "long", kind |-> "bool", short_name |-> NUL,
                   long_name |-> l, description |-> d, arg_name |-> NULL,
                   default_value |-> NULL],
                  bool_option_long(l, d))

NewPath ==
    \E c \in ShortNames, l \in LongNames, d \in Descriptions,
       a \in ArgNames, v \in DefaultValues :
        Construct([ctor |-> "short_long", kind |-> "path", short_name |-> c,
                   long_name |-> l, description |-> d, arg_name |-> a,
                   default_value |-> v],
                  path_option(c, l, d, a, v))

NewPathLong ==
    \E l \in LongNames, d \in Descriptions, a \in ArgNames,
       v \in DefaultValues :
        Construct([ctor |-> "long", kind |-> "path", short_name |-> NUL,
                   long_name |-> l, description |-> d, arg_name |-> a,
                   default_value |-> v],
                  path_option_long(l, d, a, v))

NewString ==
    \E c \in ShortNames, l \in LongNames, d \in Descriptions,
       a \in ArgNames, v \in DefaultValues :
        Construct([ctor |-> "short_long", kind |-> "string",
                   short_name |-> c, long_name |-> l, description |-> d,
                   arg_name |-> a, default_value |-> v],
                  string_option(c, l, d, a, v))

NewStringLong ==
    \E l \in LongNames, d \in Descriptions, a \in ArgNames,
       v \in DefaultValues :
        Construct([ctor |-> "long", kind |-> "string", short_name |-> NUL,
                   long_name |-> l, description |-> d, arg_name |-> a,
                   default_value |-> v],
                  string_option_long(l, d, a, v))

HasShortName == Call("has_short_name", "", has_short_name(opt))

ShortName == Call("short_name", "", short_name(opt))

LongName == Call("long_name", "", long_name(opt))

Description == Call("description", "", description(opt))

NeedsArg == Call("needs_arg", "", needs_arg(opt))

ArgName == Call("arg_name", "", arg_name(opt))

HasDefaultValue == Call("has_default_value", "", has_default_value(opt))

DefaultValue == Call("default_value", "", default_value(opt))

FormatShortName == Call("format_short_name", "", format_short_name(opt))

FormatLongName == Call("format_long_name", "", format_long_name(opt))

\* bool_option does not override validate.
BoolValidate ==
    /\ opt.kind = "bool"
    /\ \E raw \in RawTexts : Call("validate", raw, base_validate(opt, raw))

PathValidate ==
    /\ opt.kind = "path"
    /\ \E raw \in RawTexts : Call("validate", raw, path_validate(opt, raw))

PathConvert ==
    /\ opt.kind = "path"
    /\ \E raw \in RawTexts : Call("convert", raw, path_convert(opt, raw))

StringValidate ==
    /\ opt.kind = "string"
    /\ \E raw \in RawTexts : Call("validate", raw, string_validate(opt, raw))

StringConvert ==
    /\ opt.kind = "string"
    /\ \E raw \in RawTexts : Call("convert", raw, string_convert(opt, raw))

Next ==
    \/ NewBool
    \/ NewBoolLong
    \/ NewPath
    \/ NewPathLong
    \/ NewString
    \/ NewStringLong
    \/ HasShortName
    \/ ShortName
    \/ LongName
    \/ Description
    \/ NeedsArg
    \/ ArgName
    \/ HasDefaultValue
    \/ DefaultValue
    \/ FormatShortName
    \/ FormatLongName
    \/ BoolValidate
    \/ PathValidate
    \/ PathConvert
    \/ StringValidate
    \/ StringConvert

Spec == Init /\ [][Next]_vars

-----------------------------------------------------------------------------
(* Properties                                                              *)

Constructed == opt.kind # "none"

\* What the constructor arguments say about the descriptor.
ArgSupplied == args.arg_name # NULL /\ args.arg_name # <<"">>

ArgText == IF args.arg_name = NULL THEN "" ELSE args.arg_name[1]

DefaultSupplied == args.default_value # NULL

ShortSupplied == args.ctor = "short_long" /\ args.short_name # NUL

\* C1: a text that validate accepted is converted without failure: once
\* validate(raw) returned normally, convert(raw) on the same option returns a
\* value; no text is both accepted by path_option::validate and rejected by
\* path_option::convert; string_option::convert always returns.
C1_ConvertAfterValidate ==
    /\ (memo.op = "validate" /\ memo.outcome = "return"
          /\ ret.op = "convert" /\ ret.raw = memo.raw)
       => ret.outcome = "return"
    /\ opt.kind = "path"
       => \A raw \in RawTexts :
              path_validate(opt, raw).outcome = "return"
              => path_convert(opt, raw).outcome = "return"
    /\ (opt.kind = "string" /\ ret.op = "convert") => ret.outcome = "return"

C1_Witness ==
    /\ opt.kind = "path"
    /\ memo.op = "validate" /\ memo.outcome = "return"
    /\ ret.op = "convert" /\ ret.raw = memo.raw /\ ret.outcome = "return"
    /\ \E raw \in RawTexts : path_convert(opt, raw).outcome = "violation"

C3_Original ==
    (opt.kind = "path" /\ ret.op = "validate"
       /\ ret.outcome = "InvalidArgumentValue")
    => ret.err.option = format_long_name(opt).s

\* C3 amended: path_option::validate returns normally when the path
\* representation accepts the text, and otherwise raises InvalidArgumentValue
\* carrying "--" followed by the long name (without the "=<ARG>" suffix of
\* format_long_name), the raw text as passed, and the path error's message.
C3_PathValidateError ==
    (opt.kind = "path" /\ ret.op = "validate")
    => IF fs_path(ret.raw).ok
       THEN ret.outcome = "return"
       ELSE /\ ret.outcome = "InvalidArgumentValue"
            /\ ret.err = [option |-> "--" \o args.long_name,
                          value |-> ret.raw,
                          reason |-> fs_path(ret.raw).what]

C3_Witness ==
    /\ opt.kind = "path" /\ ret.op = "validate"
    /\ ret.outcome = "InvalidArgumentValue"
    /\ ArgSupplied
    /\ ret.err.option # format_long_name(opt).s

\* C4: every constructed path_option and string_option needs an argument,
\* whatever arg_name it was given.
C4_LeafNeedsArg ==
    (Constructed /\ opt.kind \in {"path", "string"}) => needs_arg(opt).b

C6_ArgAccessors ==
    /\ (ret.op \in {"arg_name", "has_default_value", "default_value"}
          /\ ~ArgSupplied)
       => (ret.outcome = "violation" /\ pc = "aborted")
    /\ (ret.op = "arg_name" /\ ArgSupplied)
       => (ret.outcome = "return" /\ ret.s = ArgText)
    /\ (ret.op = "has_default_value" /\ ArgSupplied)
       => (ret.outcome = "return" /\ ret.b = DefaultSupplied)
    /\ (ret.op = "default_value" /\ ArgSupplied)
       => IF DefaultSupplied
          THEN ret.outcome = "return" /\ ret.s = args.default_value[1]
          ELSE ret.outcome = "violation" /\ pc = "aborted"

C6_Witness ==
    /\ ret.op = "default_value" /\ ret.outcome = "violation"
    /\ ~ArgSupplied /\ args.default_value = <<"/tmp/x">>

\* C7: has_short_name() is true exactly for a descriptor built with a
\* non-NUL short name; without one, short_name() and format_short_name()
\* end in a contract violation; with one, short_name() returns it.
C7_ShortName ==
    /\ ret.op = "has_short_name"
       => (ret.outcome = "return" /\ ret.b = ShortSupplied)
    /\ (ret.op \in {"short_name", "format_short_name"} /\ ~ShortSupplied)
       => (ret.outcome = "violation" /\ pc = "aborted")
    /\ (ret.op = "short_name" /\ ShortSupplied)
       => (ret.outcome = "return" /\ ret.c = args.short_name)

C7_Witness ==
    /\ ret.op = "short_name" /\ ret.outcome = "violation"
    /\ args.ctor = "long"

\* C8: format_long_name() is "--" long_name "=" arg_name with an argument
\* and "--" long_name without; format_short_name() is "-" c " " arg_name
\* with an argument and "-" c without; neither uses the description or the
\* default value.
C8_Format ==
    /\ ret.op = "format_long_name"
       => /\ ret.outcome = "return"
          /\ ret.s = IF ArgSupplied
                     THEN "--" \o args.long_name \o "=" \o ArgText
                     ELSE "--" \o args.long_name
          /\ (args.long_name = "verbose" /\ ~ArgSupplied)
             => ret.s = "--verbose"
          /\ (args.long_name = "output" /\ ArgText = "FILE")
             => ret.s = "--output=FILE"
    /\ (ret.op = "format_short_name" /\ ShortSupplied)
       => /\ ret.outcome = "return"
          /\ ret.s = IF ArgSupplied
                     THEN "-" \o CharStr(args.short_name) \o " " \o ArgText
                     ELSE "-" \o CharStr(args.short_name)
          /\ (args.short_name = 111 /\ ArgText = "FILE")
             => ret.s = "-o FILE"
          /\ (args.short_name = 111 /\ ~ArgSupplied) => ret.s = "-o"

C8_Witness ==
    /\ ret.op = "format_long_name" /\ ret.s = "--output=FILE"
    /\ args.description # "" /\ DefaultSupplied

\* C9: string_option::validate returns normally for every text and
\* string_option::convert returns the text it was given.
C9_StringIdentity ==
    /\ (opt.kind = "string" /\ ret.op = "validate") => ret.outcome = "return"
    /\ (opt.kind = "string" /\ ret.op = "convert")
       => (ret.outcome = "return" /\ ret.s = ret.raw)

C9_Witness ==
    /\ opt.kind = "string" /\ ret.op = "convert" /\ ret.raw = ""
    /\ ret.outcome = "return" /\ opt._default_value # ""

\* The fields of the descriptor are what the constructor was given.
FieldsAsConstructed ==
    Constructed
    => /\ opt.kind = args.kind
       /\ opt._short_name = args.short_name
       /\ opt._long_name = args.long_name
       /\ opt._description = args.description
       /\ opt._arg_name = ArgText
       /\ opt._has_default_value = DefaultSupplied
       /\ opt._default_value = (IF DefaultSupplied THEN args.default_value[1]
                                ELSE "")

\* A call repeated later gives the outcome it gave before.
SameAnswer ==
    (memo.op = ret.op /\ memo.raw = ret.raw) => memo = ret

\* C10: a descriptor does not change after construction: no call changes a
\* field, the fields stay as given to the constructor, and a call repeated
\* after any sequence of calls gives the same outcome.
C10_Immutable ==
    /\ [](FieldsAsConstructed /\ SameAnswer)
    /\ [][Constructed => opt' = opt]_vars

C10_Witness ==
    /\ pc = "constructed"
    /\ opt.kind = "path"
    /\ memo.op = "validate" /\ memo.outcome = "InvalidArgumentValue"
    /\ ret.op = "validate" /\ ret.raw = memo.raw
    /\ opt._default_value = "/tmp/x"

====
